---- MODULE Spec2Model ----
(***************************************************************************)
(* Notes API (src/main.py): users, notes and the audit log kept in a       *)
(* relational store, bearer tokens (JWT, HS256) and API keys, and the      *)
(* FastAPI route handlers with their authentication dependency.            *)
(*                                                                         *)
(* Time is counted in ticks of 1/TicksPerSecond second.  A row id is the   *)
(* one SQLite gives an INTEGER PRIMARY KEY column: the largest id in the   *)
(* table plus one.                                                         *)
(***************************************************************************)
EXTENDS Integers, Sequences, FiniteSets, TLC

VARIABLES users, notes, logs, tokens, now, pending, last

vars == <<users, notes, logs, tokens, now, pending, last>>

(***************************************************************************)
(* Bounds of the model.                                                    *)
(***************************************************************************)
MaxUserId == 2
MaxNoteId == 2
MaxTokens == 1
MaxPending == 2
MaxNow == 5400
MaxLogId == 3

Usernames == {"alice", "bob"}
Passwords == {"pw1", "pw2"}
ApiKeys == {"k1", "k2"}

(***************************************************************************)
(* Program constants and value encodings.                                  *)
(***************************************************************************)
TicksPerSecond == 2
ACCESS_TOKEN_EXPIRE_MINUTES == 30
DEFAULT_EXPIRE_MINUTES == 15

ADMIN == "admin"
USER == "user"
Role == {ADMIN, USER}

None == "None"

\* timedelta(minutes=m), in ticks
timedelta(m) == m * 60 * TicksPerSecond

\* The amounts by which the clock is observed to advance between two requests.
ClockSteps ==
    { timedelta(DEFAULT_EXPIRE_MINUTES) - 1,
      timedelta(ACCESS_TOKEN_EXPIRE_MINUTES) - 1,
      timedelta(ACCESS_TOKEN_EXPIRE_MINUTES) }

(***************************************************************************)
(* Password hashing: an opaque one-way capability.                         *)
(***************************************************************************)
get_password_hash(password) == [alg |-> "bcrypt", of |-> password]

verify_password(plain_password, hashed_password) ==
    hashed_password = get_password_hash(plain_password)

(***************************************************************************)
(* Token service.  A token is its claim set; "garbage" is a string that is *)
(* no validly signed JWT, "empty" the empty string.                        *)
(***************************************************************************)
Jwt(sub, exp) == [kind |-> "jwt", sub |-> sub, hasexp |-> TRUE, exp |-> exp]
EmptyToken == [kind |-> "empty", sub |-> None, hasexp |-> FALSE, exp |-> 0]
GarbageToken == [kind |-> "garbage", sub |-> None, hasexp |-> FALSE, exp |-> 0]
NoSubToken == [kind |-> "jwt", sub |-> None, hasexp |-> FALSE, exp |-> 0]

\* pyjwt.encode turns a datetime "exp" into whole seconds since the epoch
\* (timegm of the time tuple: the fraction of a second is dropped).
jwt_encode_exp(expire) == expire \div TicksPerSecond

\* create_access_token ignoring expires_delta: always the default lifetime.
create_access_token_IgnoresDelta(sub, expires_delta, t) ==
    Jwt(sub, jwt_encode_exp(t + timedelta(DEFAULT_EXPIRE_MINUTES)))

\* expires_delta is 0 when the argument is omitted (or a zero timedelta, which
\* Python's "if expires_delta:" treats alike).
create_access_token(sub, expires_delta, t) ==
    LET expire == IF expires_delta # 0
                  THEN t + expires_delta
                  ELSE t + timedelta(DEFAULT_EXPIRE_MINUTES)
    IN  Jwt(sub, jwt_encode_exp(expire))

\* pyjwt.decode: the signature first, then the "exp" claim against the clock.
jwt_decode(token, t) ==
    IF token.kind # "jwt" THEN [err |-> "InvalidTokenError", sub |-> None]
    ELSE IF token.hasexp /\ token.exp * TicksPerSecond <= t
         THEN [err |-> "ExpiredSignatureError", sub |-> None]
         ELSE [err |-> "none", sub |-> token.sub]

(***************************************************************************)
(* The store.  A table is a set of rows; db is the record of the tables.   *)
(***************************************************************************)
NoUser ==
    [id |-> 0, username |-> None, full_name |-> None, email |-> None,
     hashed_password |-> get_password_hash(None), role |-> None,
     is_active |-> FALSE, api_key |-> None]

NoNote == [id |-> 0, title |-> None, content |-> None, owner |-> None, is_private |-> FALSE]

\* UserDB: id is the primary key; username, email and api_key are unique.
UserDB(id, username, full_name, email, hashed_password, role, api_key) ==
    [id |-> id, username |-> username, full_name |-> full_name, email |-> email,
     hashed_password |-> hashed_password, role |-> role, is_active |-> TRUE,
     api_key |-> api_key]

NoteDB(id, title, content, owner, is_private) ==
    [id |-> id, title |-> title, content |-> content, owner |-> owner,
     is_private |-> is_private]

MaxOf(S) == IF S = {} THEN 0 ELSE CHOOSE m \in S : \A x \in S : x <= m

\* The id of the next row inserted into a table.
NextId(table) == MaxOf({r.id : r \in table}) + 1

\* query(...).filter(...).first(): the row with the smallest id among the matches.
first(rows, none) ==
    IF rows = {} THEN none
    ELSE CHOOSE r \in rows : \A q \in rows : r.id <= q.id

\* The users table without the unique constraint on username.
UsersInsertOk_NoUniqueUsername(table, row) ==
    \A u \in table : /\ u.id # row.id
                     /\ u.email # row.email
                     /\ u.api_key # row.api_key

\* The unique constraints of the users table: a violating INSERT raises
\* IntegrityError and stores nothing.
UsersInsertOk(table, row) ==
    \A u \in table : /\ u.id # row.id
                     /\ u.username # row.username
                     /\ u.email # row.email
                     /\ u.api_key # row.api_key

(***************************************************************************)
(* Responses.  A body is the set of the objects it carries: one for a      *)
(* single object, all the elements of a list, none for an error.           *)
(***************************************************************************)
Response(status, detail, body) == [status |-> status, detail |-> detail, body |-> body]

HTTPException(status, detail) == Response(status, detail, {})

\* An exception no handler catches: the server answers 500.
InternalServerError == Response(500, "Internal Server Error", {})

\* response_model=User: the fields of the pydantic model User.
User(u) ==
    [username |-> u.username, full_name |-> u.full_name, email |-> u.email,
     hashed_password |-> u.hashed_password, role |-> u.role,
     is_active |-> u.is_active, api_key |-> u.api_key]

\* response_model=Note
Note(n) ==
    [id |-> n.id, title |-> n.title, content |-> n.content, owner |-> n.owner,
     is_private |-> n.is_private]

\* The outcome of a handler: the store it leaves and the response it gives.
Outcome(db, resp) == [users |-> db.users, notes |-> db.notes, resp |-> resp]

(***************************************************************************)
(* Authentication.  A request carries an Authorization header (absent, or  *)
(* a scheme and a parameter) and an X-API-Key header (None when absent).   *)
(***************************************************************************)
NoAuthorization == [scheme |-> "none", param |-> EmptyToken]
Bearer(token) == [scheme |-> "bearer", param |-> token]

Authenticated(user) == [ok |-> TRUE, user |-> user, status |-> 200, detail |-> "ok"]
Rejected(status, detail) == [ok |-> FALSE, user |-> NoUser, status |-> status, detail |-> detail]

\* OAuth2PasswordBearer(tokenUrl="/token"): auto_error is left at its default,
\* so a request without an "Authorization: Bearer ..." header is answered 401
\* by the scheme itself; otherwise the parameter after the scheme is the token.
oauth2_scheme(authorization) ==
    IF authorization.scheme # "bearer"
    THEN [ok |-> FALSE, token |-> EmptyToken]
    ELSE [ok |-> TRUE, token |-> authorization.param]

\* APIKeyHeader(name="X-API-Key", auto_error=False): the header's value or None.
api_key_header(x_api_key) == x_api_key

\* Python truthiness of an optional string.
Truthy(x) == x # None /\ x # ""

\* get_current_user without the is_active test on the bearer path.
get_current_user_BearerIgnoresActive(token, api_key, db, t) ==
    IF token.kind # "empty"
    THEN LET payload == jwt_decode(token, t)
             user == first({u \in db.users : u.username = payload.sub}, NoUser)
         IN  IF payload.err = "ExpiredSignatureError"
             THEN Rejected(401, "Token has expired")
             ELSE IF payload.err = "InvalidTokenError"
             THEN Rejected(401, "Invalid authentication credentials")
             ELSE IF payload.sub = None
             THEN Rejected(401, "Invalid authentication credentials")
             ELSE IF user = NoUser
             THEN Rejected(401, "Invalid authentication credentials")
             ELSE Authenticated(user)
    ELSE IF Truthy(api_key)
    THEN LET user == first({u \in db.users : u.api_key = api_key}, NoUser)
         IN  IF user = NoUser \/ ~user.is_active
             THEN Rejected(403, "Could not validate API key")
             ELSE Authenticated(user)
    ELSE Rejected(401, "No authentication credentials provided")

\* get_current_user trying the API key first when one is sent.
get_current_user_KeyFirst(token, api_key, db, t) ==
    IF Truthy(api_key)
    THEN LET user == first({u \in db.users : u.api_key = api_key}, NoUser)
         IN  IF user = NoUser \/ ~user.is_active
             THEN Rejected(403, "Could not validate API key")
             ELSE Authenticated(user)
    ELSE IF token.kind # "empty"
    THEN LET payload == jwt_decode(token, t)
             user == first({u \in db.users : u.username = payload.sub}, NoUser)
         IN  IF payload.err = "ExpiredSignatureError"
             THEN Rejected(401, "Token has expired")
             ELSE IF payload.err = "InvalidTokenError"
             THEN Rejected(401, "Invalid authentication credentials")
             ELSE IF payload.sub = None
             THEN Rejected(401, "Invalid authentication credentials")
             ELSE IF user = NoUser \/ ~user.is_active
             THEN Rejected(401, "Invalid authentication credentials")
             ELSE Authenticated(user)
    ELSE Rejected(401, "No authentication credentials provided")

get_current_user(token, api_key, db, t) ==
    IF token.kind # "empty"
    THEN LET payload == jwt_decode(token, t)
             user == first({u \in db.users : u.username = payload.sub}, NoUser)
         IN  IF payload.err = "ExpiredSignatureError"
             THEN Rejected(401, "Token has expired")
             ELSE IF payload.err = "InvalidTokenError"
             THEN Rejected(401, "Invalid authentication credentials")
             ELSE IF payload.sub = None
             THEN Rejected(401, "Invalid authentication credentials")
             ELSE IF user = NoUser \/ ~user.is_active
             THEN Rejected(401, "Invalid authentication credentials")
             ELSE Authenticated(user)
    ELSE IF Truthy(api_key)
    THEN LET user == first({u \in db.users : u.api_key = api_key}, NoUser)
         IN  IF user = NoUser \/ ~user.is_active
             THEN Rejected(403, "Could not validate API key")
             ELSE Authenticated(user)
    ELSE Rejected(401, "No authentication credentials provided")

\* Depends(get_current_user), with its own dependencies solved first.
Depends_get_current_user(authorization, x_api_key, db, t) ==
    LET scheme == oauth2_scheme(authorization)
    IN  IF ~scheme.ok
        THEN Rejected(401, "Not authenticated")
        ELSE get_current_user(scheme.token, api_key_header(x_api_key), db, t)

\* A route with Depends(get_current_user): a rejected credential is the
\* response and the handler does not run.
Protected(cu, db, outcome) ==
    IF cu.ok THEN outcome ELSE Outcome(db, HTTPException(cu.status, cu.detail))

(***************************************************************************)
(* The audit log.  An endpoint is the sequence of the segments of the      *)
(* request's path.                                                         *)
(***************************************************************************)
LogDB(id, timestamp, username, endpoint, method, status_code) ==
    [id |-> id, timestamp |-> timestamp, username |-> username,
     endpoint |-> endpoint, method |-> method, status_code |-> status_code]

\* response_model=List[Log]
Log(l) ==
    [id |-> l.id, timestamp |-> l.timestamp, username |-> l.username,
     endpoint |-> l.endpoint, method |-> l.method, status_code |-> l.status_code]

\* log_activity: the insert and its commit, which commit_ok says succeeds or
\* raises (the log is then as it was).
log_activity(request, response_status, log, username, t, commit_ok) ==
    LET log_entry == LogDB(NextId(log), t, username, request.endpoint,
                           request.method, response_status)
    IN  IF commit_ok
        THEN [raised |-> FALSE, logs |-> log \cup {log_entry}]
        ELSE [raised |-> TRUE, logs |-> log]

\* What call_next gives the middleware: the response of the route, of its
\* dependencies or of the HTTPException handler; an exception nothing below
\* handles is raised out of call_next instead.
Raises(response) == response = InternalServerError

\* The middleware log_requests around call_next, whose result is response.
\* The username it logs is the "sub" of the Authorization header decoded as
\* a token, whatever the route's dependency made of the credentials.  An
\* exception leaving the middleware is answered 500 by the server.
log_requests(request, response, log, t, commit_ok) ==
    LET token == request.authorization
        payload == jwt_decode(token.param, t)
        username == IF token.scheme # "none" /\ payload.err = "none"
                    THEN payload.sub
                    ELSE None
        written == log_activity(request, response.status, log, username, t, commit_ok)
    IN  IF Raises(response)
        THEN [logs |-> log, resp |-> InternalServerError]
        ELSE IF written.raised
        THEN [logs |-> log, resp |-> InternalServerError]
        ELSE [logs |-> written.logs, resp |-> response]

(***************************************************************************)
(* Route handlers.  Each is the function of src/main.py: from its inputs,  *)
(* the identity its dependency resolved and the store, to the store it     *)
(* commits and its response.                                               *)
(***************************************************************************)
UserCreate(username, full_name, email, password, role) ==
    [username |-> username, full_name |-> full_name, email |-> email,
     password |-> password, role |-> role]

\* The existence check made on the email instead of the username.
register_check_ByEmail(user, db) == \E u \in db.users : u.email = user.email

\* The existence check of register_user.
register_check(user, db) == \E u \in db.users : u.username = user.username

\* The insert of register_user; api_key is the value generate_api_key() drew.
register_commit(user, api_key, db) ==
    LET new_user == UserDB(NextId(db.users), user.username, user.full_name,
                           user.email, get_password_hash(user.password),
                           user.role, api_key)
    IN  IF UsersInsertOk(db.users, new_user)
        THEN Outcome([db EXCEPT !.users = @ \cup {new_user}],
                     Response(200, "ok", {User(new_user)}))
        ELSE Outcome(db, InternalServerError)

register_user(user, api_key, db) ==
    IF register_check(user, db)
    THEN Outcome(db, HTTPException(400, "User already exists"))
    ELSE register_commit(user, api_key, db)

\* login_for_access_token telling an unknown username from a wrong password.
login_for_access_token_TellsUnknown(username, password, db, t) ==
    LET user == first({u \in db.users : u.username = username}, NoUser)
    IN  IF user = NoUser
        THEN Outcome(db, HTTPException(401, "Unknown username"))
        ELSE IF ~verify_password(password, user.hashed_password)
        THEN Outcome(db, HTTPException(401, "Incorrect username or password"))
        ELSE Outcome(db, Response(200, "ok",
                 {[access_token |-> create_access_token(user.username,
                                       timedelta(ACCESS_TOKEN_EXPIRE_MINUTES), t),
                   token_type |-> "bearer",
                   api_key |-> user.api_key]}))

\* login_for_access_token refusing a deactivated user.
login_for_access_token_ActiveOnly(username, password, db, t) ==
    LET user == first({u \in db.users : u.username = username}, NoUser)
    IN  IF user = NoUser \/ ~user.is_active
               \/ ~verify_password(password, user.hashed_password)
        THEN Outcome(db, HTTPException(401, "Incorrect username or password"))
        ELSE Outcome(db, Response(200, "ok",
                 {[access_token |-> create_access_token(user.username,
                                       timedelta(ACCESS_TOKEN_EXPIRE_MINUTES), t),
                   token_type |-> "bearer",
                   api_key |-> user.api_key]}))

login_for_access_token(username, password, db, t) ==
    LET user == first({u \in db.users : u.username = username}, NoUser)
    IN  IF user = NoUser \/ ~verify_password(password, user.hashed_password)
        THEN Outcome(db, HTTPException(401, "Incorrect username or password"))
        ELSE Outcome(db, Response(200, "ok",
                 {[access_token |-> create_access_token(user.username,
                                       timedelta(ACCESS_TOKEN_EXPIRE_MINUTES), t),
                   token_type |-> "bearer",
                   api_key |-> user.api_key]}))

NoteCreate(title, content, is_private) ==
    [title |-> title, content |-> content, is_private |-> is_private]

create_note(note, current_user, db) ==
    LET new_note == NoteDB(NextId(db.notes), note.title, note.content,
                           current_user.username, note.is_private)
    IN  Outcome([db EXCEPT !.notes = @ \cup {new_note}],
                Response(200, "ok", {Note(new_note)}))

\* get_notes without the admin clause of its filter.
get_notes_NoAdminClause(current_user, db) ==
    Outcome(db, Response(200, "ok",
        { Note(note) : note \in
            { n \in db.notes : ~n.is_private \/ n.owner = current_user.username } }))

get_notes(current_user, db) ==
    Outcome(db, Response(200, "ok",
        { Note(note) : note \in
            { n \in db.notes : \/ ~n.is_private
                               \/ n.owner = current_user.username
                               \/ current_user.role = ADMIN } }))

\* delete_note testing ownership before existence.
delete_note_OwnershipFirst(note_id, current_user, db) ==
    LET note == first({n \in db.notes : n.id = note_id}, NoNote)
    IN  IF note.owner # current_user.username /\ current_user.role # ADMIN
        THEN Outcome(db, HTTPException(403, "Not enough permissions"))
        ELSE IF note = NoNote
        THEN Outcome(db, HTTPException(404, "Note not found"))
        ELSE Outcome([db EXCEPT !.notes = @ \ {note}], Response(200, "ok", {Note(note)}))

delete_note(note_id, current_user, db) ==
    LET note == first({n \in db.notes : n.id = note_id}, NoNote)
    IN  IF note = NoNote
        THEN Outcome(db, HTTPException(404, "Note not found"))
        ELSE IF note.owner # current_user.username /\ current_user.role # ADMIN
        THEN Outcome(db, HTTPException(403, "Not enough permissions"))
        ELSE Outcome([db EXCEPT !.notes = @ \ {note}], Response(200, "ok", {Note(note)}))

\* NoteUpdate: set is the set of fields the request supplied (exclude_unset).
NoteUpdate(set, title, content, is_private) ==
    [set |-> set, title |-> title, content |-> content, is_private |-> is_private]

\* update_note making whoever updates the note its owner.
update_note_TakesOwnership(note_id, note_update, current_user, db) ==
    LET note == first({n \in db.notes : n.id = note_id}, NoNote)
        updated ==
            [note EXCEPT
                !.owner = current_user.username,
                !.title = IF "title" \in note_update.set THEN note_update.title ELSE @,
                !.content = IF "content" \in note_update.set THEN note_update.content ELSE @,
                !.is_private = IF "is_private" \in note_update.set
                               THEN note_update.is_private ELSE @]
    IN  IF note = NoNote
        THEN Outcome(db, HTTPException(404, "Note not found"))
        ELSE IF note.owner # current_user.username /\ current_user.role # ADMIN
        THEN Outcome(db, HTTPException(403, "Not enough permissions"))
        ELSE Outcome([db EXCEPT !.notes = (@ \ {note}) \cup {updated}],
                     Response(200, "ok", {Note(updated)}))

update_note(note_id, note_update, current_user, db) ==
    LET note == first({n \in db.notes : n.id = note_id}, NoNote)
        updated ==
            [note EXCEPT
                !.title = IF "title" \in note_update.set THEN note_update.title ELSE @,
                !.content = IF "content" \in note_update.set THEN note_update.content ELSE @,
                !.is_private = IF "is_private" \in note_update.set
                               THEN note_update.is_private ELSE @]
    IN  IF note = NoNote
        THEN Outcome(db, HTTPException(404, "Note not found"))
        ELSE IF note.owner # current_user.username /\ current_user.role # ADMIN
        THEN Outcome(db, HTTPException(403, "Not enough permissions"))
        ELSE Outcome([db EXCEPT !.notes = (@ \ {note}) \cup {updated}],
                     Response(200, "ok", {Note(updated)}))

get_logs(current_user, db, log) ==
    IF current_user.role # ADMIN
    THEN Outcome(db, HTTPException(403, "Not enough permissions"))
    ELSE Outcome(db, Response(200, "ok", { Log(l) : l \in log }))

\* The three admin updates of a user row share their shape: role check, lookup
\* by id, one field assigned.
deactivate_user(user_id, current_user, db) ==
    LET user == first({u \in db.users : u.id = user_id}, NoUser)
        updated == [user EXCEPT !.is_active = FALSE]
    IN  IF current_user.role # ADMIN
        THEN Outcome(db, HTTPException(403, "Not enough permissions"))
        ELSE IF user = NoUser
        THEN Outcome(db, HTTPException(404, "User not found"))
        ELSE Outcome([db EXCEPT !.users = (@ \ {user}) \cup {updated}],
                     Response(200, "ok", {User(updated)}))

reset_password(user_id, new_password, current_user, db) ==
    LET user == first({u \in db.users : u.id = user_id}, NoUser)
        updated == [user EXCEPT !.hashed_password = get_password_hash(new_password)]
    IN  IF current_user.role # ADMIN
        THEN Outcome(db, HTTPException(403, "Not enough permissions"))
        ELSE IF user = NoUser
        THEN Outcome(db, HTTPException(404, "User not found"))
        ELSE Outcome([db EXCEPT !.users = (@ \ {user}) \cup {updated}],
                     Response(200, "ok", {User(updated)}))

\* update_user_role answering with the new role without committing it.
update_user_role_NoCommit(user_id, role, current_user, db) ==
    LET user == first({u \in db.users : u.id = user_id}, NoUser)
        updated == [user EXCEPT !.role = role]
    IN  IF current_user.role # ADMIN
        THEN Outcome(db, HTTPException(403, "Not enough permissions"))
        ELSE IF user = NoUser
        THEN Outcome(db, HTTPException(404, "User not found"))
        ELSE Outcome(db, Response(200, "ok", {User(updated)}))

\* update_user_role assigning the role before it tests the caller's.
update_user_role_AssignsBeforeRoleCheck(user_id, role, current_user, db) ==
    LET user == first({u \in db.users : u.id = user_id}, NoUser)
        updated == [user EXCEPT !.role = role]
        assigned == IF user = NoUser THEN db
                    ELSE [db EXCEPT !.users = (@ \ {user}) \cup {updated}]
    IN  IF current_user.role # ADMIN
        THEN Outcome(assigned, HTTPException(403, "Not enough permissions"))
        ELSE IF user = NoUser
        THEN Outcome(db, HTTPException(404, "User not found"))
        ELSE Outcome(assigned, Response(200, "ok", {User(updated)}))

update_user_role(user_id, role, current_user, db) ==
    LET user == first({u \in db.users : u.id = user_id}, NoUser)
        updated == [user EXCEPT !.role = role]
    IN  IF current_user.role # ADMIN
        THEN Outcome(db, HTTPException(403, "Not enough permissions"))
        ELSE IF user = NoUser
        THEN Outcome(db, HTTPException(404, "User not found"))
        ELSE Outcome([db EXCEPT !.users = (@ \ {user}) \cup {updated}],
                     Response(200, "ok", {User(updated)}))

get_all_users(current_user, db) ==
    IF current_user.role # ADMIN
    THEN Outcome(db, HTTPException(403, "Not enough permissions"))
    ELSE Outcome(db, Response(200, "ok", { User(u) : u \in db.users }))

\* delete_user looking the user up before testing the role.
delete_user_ExistenceFirst(user_name, current_user, db) ==
    LET user == first({u \in db.users : u.username = user_name}, NoUser)
    IN  IF user = NoUser
        THEN Outcome(db, HTTPException(404, "User not found"))
        ELSE IF current_user.role # ADMIN
        THEN Outcome(db, HTTPException(403, "Not enough permissions"))
        ELSE Outcome([db EXCEPT !.users = @ \ {user}], Response(200, "ok", {User(user)}))

delete_user(user_name, current_user, db) ==
    LET user == first({u \in db.users : u.username = user_name}, NoUser)
    IN  IF current_user.role # ADMIN
        THEN Outcome(db, HTTPException(403, "Not enough permissions"))
        ELSE IF user = NoUser
        THEN Outcome(db, HTTPException(404, "User not found"))
        ELSE Outcome([db EXCEPT !.users = @ \ {user}], Response(200, "ok", {User(user)}))

(***************************************************************************)
(* The state machine.  users, notes, logs: the tables.  tokens: the bearer *)
(* tokens issued so far, each with the time and the way it was issued      *)
(* (clients hold them).  now: the clock.  pending: the registrations that  *)
(* passed the existence check and have not yet committed.  last: the       *)
(* request answered last, the identity its dependency resolved and its     *)
(* response.                                                               *)
(***************************************************************************)
DB == [users |-> users, notes |-> notes]

\* A token as issued: by is "login" or "service", delta the expires_delta
\* argument (0 when omitted).
Grant(token, at, by, delta) == [token |-> token, at |-> at, by |-> by, delta |-> delta]

\* What a request is aimed at: a row id, a username, or neither.
Target(id, name) == [id |-> id, name |-> name]
NoTarget == Target(0, None)

TypeOK ==
    /\ \A u \in users : u.id \in 1..MaxUserId /\ u.username \in Usernames
    /\ \A n \in notes : n.id \in 1..MaxNoteId
    /\ now \in 0..MaxNow
    /\ Cardinality(tokens) <= MaxTokens
    /\ Cardinality(pending) <= MaxPending

Init ==
    /\ users = {}
    /\ notes = {}
    /\ logs = {}
    /\ tokens = {}
    /\ now = 0
    /\ pending = {}
    /\ last = [op |-> "none", authorization |-> NoAuthorization, x_api_key |-> None,
               target |-> NoTarget, current_user |-> None,
               resp |-> Response(0, "none", {})]

\* The credentials a client can put on a request.
Authorizations ==
    {NoAuthorization, Bearer(EmptyToken), Bearer(GarbageToken), Bearer(NoSubToken)}
        \cup {Bearer(g.token) : g \in tokens}

XApiKeys == {None} \cup ApiKeys

Credentials == Authorizations \X XApiKeys

\* An API key under an Authorization header "Bearer" with no token after it.
KeyCredentials == {<<Bearer(EmptyToken), k>> : k \in ApiKeys}

\* The credentials that can resolve to an identity, and none at all.
PlainCredentials ==
    {<<NoAuthorization, None>>}
        \cup {<<Bearer(g.token), None>> : g \in tokens}
        \cup KeyCredentials

\* The store and the response of a request become the state; current_user is
\* the username of the identity the request's dependency resolved, if any.
Respond(op, c, target, cu, out) ==
    /\ users' = out.users
    /\ notes' = out.notes
    /\ last' = [op |-> op, authorization |-> c[1], x_api_key |-> c[2],
                target |-> target, current_user |-> cu.user.username,
                resp |-> out.resp]

\* A route without Depends(get_current_user) resolves no identity.
Anonymous == Rejected(0, "none")
NoCredentials == <<NoAuthorization, None>>

CurrentUser(authorization, x_api_key) ==
    Depends_get_current_user(authorization, x_api_key, DB, now)

Tick(d) ==
    /\ now + d <= MaxNow
    /\ now' = now + d
    /\ UNCHANGED <<users, notes, logs, tokens, pending, last>>

\* POST /register, the handler run from its check to its commit.
RegisterUser(user, api_key) ==
    /\ NextId(users) <= MaxUserId
    /\ Respond("register_user", NoCredentials, Target(0, user.username), Anonymous,
               register_user(user, api_key, DB))
    /\ UNCHANGED <<logs, tokens, now, pending>>

\* POST /register up to its existence check: answered 400, or left pending.
RegisterBegin(user) ==
    IF register_check(user, DB)
    THEN /\ Respond("register_user", NoCredentials, Target(0, user.username), Anonymous,
                    Outcome(DB, HTTPException(400, "User already exists")))
         /\ UNCHANGED <<logs, tokens, now, pending>>
    ELSE /\ Cardinality(pending \cup {user}) <= MaxPending
         /\ pending' = pending \cup {user}
         /\ UNCHANGED <<users, notes, logs, tokens, now, last>>

\* POST /register from generate_api_key() to its commit, other requests
\* having run since its check.
RegisterCommit(user, api_key) ==
    /\ user \in pending
    /\ NextId(users) <= MaxUserId
    /\ pending' = pending \ {user}
    /\ Respond("register_user", NoCredentials, Target(0, user.username), Anonymous,
               register_commit(user, api_key, DB))
    /\ UNCHANGED <<logs, tokens, now>>

Login(username, password) ==
    LET out == login_for_access_token(username, password, DB, now)
        issued == { Grant(b.access_token, now, "login", 0) : b \in out.resp.body }
    IN  /\ Cardinality(tokens \cup issued) <= MaxTokens
        /\ tokens' = tokens \cup issued
        /\ Respond("login_for_access_token", NoCredentials, Target(0, username),
                   Anonymous, out)
        /\ UNCHANGED <<logs, now, pending>>

\* The token service called directly: create_access_token(data, expires_delta).
CreateAccessToken(sub, expires_delta) ==
    LET issued == Grant(create_access_token(sub, expires_delta, now), now, "service",
                        expires_delta)
    IN  /\ Cardinality(tokens \cup {issued}) <= MaxTokens
        /\ tokens' = tokens \cup {issued}
        /\ UNCHANGED <<users, notes, logs, now, pending, last>>

CreateNote(c, note) ==
    LET cu == CurrentUser(c[1], c[2])
    IN  /\ NextId(notes) <= MaxNoteId
        /\ Respond("create_note", c, NoTarget, cu,
                   Protected(cu, DB, create_note(note, cu.user, DB)))
        /\ UNCHANGED <<logs, tokens, now, pending>>

GetNotes(c) ==
    LET cu == CurrentUser(c[1], c[2])
    IN  /\ Respond("get_notes", c, NoTarget, cu,
                   Protected(cu, DB, get_notes(cu.user, DB)))
        /\ UNCHANGED <<logs, tokens, now, pending>>

DeleteNote(c, note_id) ==
    LET cu == CurrentUser(c[1], c[2])
    IN  /\ Respond("delete_note", c, Target(note_id, None), cu,
                   Protected(cu, DB, delete_note(note_id, cu.user, DB)))
        /\ UNCHANGED <<logs, tokens, now, pending>>

UpdateNote(c, note_id, note_update) ==
    LET cu == CurrentUser(c[1], c[2])
    IN  /\ Respond("update_note", c, Target(note_id, None), cu,
                   Protected(cu, DB, update_note(note_id, note_update, cu.user, DB)))
        /\ UNCHANGED <<logs, tokens, now, pending>>

GetLogs(c) ==
    LET cu == CurrentUser(c[1], c[2])
    IN  /\ Respond("get_logs", c, NoTarget, cu,
                   Protected(cu, DB, get_logs(cu.user, DB, logs)))
        /\ UNCHANGED <<logs, tokens, now, pending>>

DeactivateUser(c, user_id) ==
    LET cu == CurrentUser(c[1], c[2])
    IN  /\ Respond("deactivate_user", c, Target(user_id, None), cu,
                   Protected(cu, DB, deactivate_user(user_id, cu.user, DB)))
        /\ UNCHANGED <<logs, tokens, now, pending>>

ResetPassword(c, user_id, new_password) ==
    LET cu == CurrentUser(c[1], c[2])
    IN  /\ Respond("reset_password", c, Target(user_id, None), cu,
                   Protected(cu, DB, reset_password(user_id, new_password, cu.user, DB)))
        /\ UNCHANGED <<logs, tokens, now, pending>>

UpdateUserRole(c, user_id, role) ==
    LET cu == CurrentUser(c[1], c[2])
    IN  /\ Respond("update_user_role", c, Target(user_id, None), cu,
                   Protected(cu, DB, update_user_role(user_id, role, cu.user, DB)))
        /\ UNCHANGED <<logs, tokens, now, pending>>

GetAllUsers(c) ==
    LET cu == CurrentUser(c[1], c[2])
    IN  /\ Respond("get_all_users", c, NoTarget, cu,
                   Protected(cu, DB, get_all_users(cu.user, DB)))
        /\ UNCHANGED <<logs, tokens, now, pending>>

DeleteUser(c, user_name) ==
    LET cu == CurrentUser(c[1], c[2])
    IN  /\ Respond("delete_user", c, Target(0, user_name), cu,
                   Protected(cu, DB, delete_user(user_name, cu.user, DB)))
        /\ UNCHANGED <<logs, tokens, now, pending>>

(***************************************************************************)
(* Spec: registration, login, the clock, deactivation and deletion of      *)
(* users, and GET /notes as the protected request, with every combination  *)
(* of credentials.                                                         *)
(***************************************************************************)
EmailOf(u) == IF u = "alice" THEN "a@x" ELSE "b@x"

Registrations == { UserCreate(u, "fn", EmailOf(u), "pw1", r) : u \in Usernames, r \in Role }

\* The key generate_api_key() draws for a registration, where the draw is not
\* what is explored.
KeyOf(u) == IF u = "alice" THEN "k1" ELSE "k2"

Next ==
    \/ Tick(timedelta(ACCESS_TOKEN_EXPIRE_MINUTES))
    \/ \E user \in Registrations : RegisterUser(user, KeyOf(user.username))
    \/ \E u \in Usernames : Login(u, "pw1")
    \/ \E c \in Credentials : GetNotes(c)
    \/ \E c \in PlainCredentials, i \in 1..MaxUserId : DeactivateUser(c, i)
    \/ \E c \in PlainCredentials, u \in Usernames : DeleteUser(c, u)

Spec == Init /\ [][Next]_vars

(***************************************************************************)
(* SpecToken: the token service against the clock, which advances by just  *)
(* under and exactly the two lifetimes.                                    *)
(***************************************************************************)
NextToken ==
    \/ \E d \in ClockSteps : Tick(d)
    \/ \E user \in Registrations : RegisterUser(user, KeyOf(user.username))
    \/ \E u \in Usernames : Login(u, "pw1")
    \/ \E u \in Usernames, d \in {0, timedelta(ACCESS_TOKEN_EXPIRE_MINUTES)} :
          CreateAccessToken(u, d)
    \/ \E c \in PlainCredentials : GetNotes(c)

SpecToken == Init /\ [][NextToken]_vars

(***************************************************************************)
(* SpecNotes: the note routes, with the role updates that change what an   *)
(* identity may see and do.  Identities present their API keys.            *)
(***************************************************************************)
NotesCreates == { NoteCreate("t1", "c1", p) : p \in BOOLEAN }

NotesUpdates ==
    { NoteUpdate(f, "t2", "c1", TRUE) : f \in SUBSET {"title", "is_private"} }
        \cup { NoteUpdate({"is_private"}, "t2", "c1", FALSE) }

NotesRegistrations ==
    { UserCreate("alice", "fn", EmailOf("alice"), "pw1", USER),
      UserCreate("bob", "fn", EmailOf("bob"), "pw1", ADMIN) }

NotesCredentials == {NoCredentials} \cup KeyCredentials

NextNotes ==
    \/ \E user \in NotesRegistrations : RegisterUser(user, KeyOf(user.username))
    \/ \E c \in NotesCredentials, n \in NotesCreates : CreateNote(c, n)
    \/ \E c \in NotesCredentials : GetNotes(c)
    \/ \E c \in NotesCredentials, i \in 1..MaxNoteId : DeleteNote(c, i)
    \/ \E c \in NotesCredentials, i \in 1..MaxNoteId, nu \in NotesUpdates : UpdateNote(c, i, nu)
    \/ \E c \in NotesCredentials, i \in 1..MaxUserId, r \in Role : UpdateUserRole(c, i, r)

SpecNotes == Init /\ [][NextNotes]_vars

(***************************************************************************)
(* SpecAdmin: the admin-only routes.                                       *)
(***************************************************************************)
NextAdmin ==
    \/ \E user \in Registrations : RegisterUser(user, KeyOf(user.username))
    \/ \E u \in Usernames, p \in Passwords : Login(u, p)
    \/ \E c \in PlainCredentials : GetLogs(c)
    \/ \E c \in PlainCredentials : GetAllUsers(c)
    \/ \E c \in PlainCredentials, i \in 1..MaxUserId : DeactivateUser(c, i)
    \/ \E c \in PlainCredentials, i \in 1..MaxUserId, p \in Passwords : ResetPassword(c, i, p)
    \/ \E c \in PlainCredentials, i \in 1..MaxUserId, r \in Role : UpdateUserRole(c, i, r)
    \/ \E c \in PlainCredentials, u \in Usernames : DeleteUser(c, u)

SpecAdmin == Init /\ [][NextAdmin]_vars

(***************************************************************************)
(* SpecRace: registrations interleaved with one another and with the       *)
(* deactivation and deletion of users.                                     *)
(***************************************************************************)
RaceCreates ==
    { UserCreate(u, "fn", "a@x", "pw1", ADMIN) : u \in Usernames }
        \cup { UserCreate(u, "fn", "b@x", "pw2", USER) : u \in Usernames }

NextRace ==
    \/ \E user \in RaceCreates, k \in ApiKeys : RegisterUser(user, k)
    \/ \E user \in RaceCreates : RegisterBegin(user)
    \/ \E user \in RaceCreates, k \in ApiKeys : RegisterCommit(user, k)
    \/ \E c \in KeyCredentials, i \in 1..MaxUserId : DeactivateUser(c, i)
    \/ \E c \in KeyCredentials, u \in Usernames : DeleteUser(c, u)

SpecRace == Init /\ [][NextRace]_vars

(***************************************************************************)
(* SpecRole: role updates against credentials already in a client's hands. *)
(* alice registers as user and bob as admin; a role is changed with a      *)
(* bearer token, so the one token there is was issued to an admin before   *)
(* any role changed, and every API key was handed out at registration.     *)
(***************************************************************************)
TokenCredentials == {<<Bearer(g.token), None>> : g \in tokens}

NextRole ==
    \/ \E user \in NotesRegistrations : RegisterUser(user, KeyOf(user.username))
    \/ \E u \in Usernames : Login(u, "pw1")
    \/ \E c \in KeyCredentials, n \in NotesCreates : CreateNote(c, n)
    \/ \E c \in PlainCredentials : GetNotes(c)
    \/ \E c \in PlainCredentials : GetLogs(c)
    \/ \E c \in TokenCredentials, i \in 1..MaxUserId, r \in Role : UpdateUserRole(c, i, r)

SpecRole == Init /\ [][NextRole]_vars

(***************************************************************************)
(* SpecLog: requests followed through the middleware that writes the audit *)
(* log.  In the specifications above the log is left out of the picture:   *)
(* no route but GET /logs reads it.  A request here is its method and      *)
(* path, its credentials, and what the application below the middleware    *)
(* makes of it in the current store.                                       *)
(***************************************************************************)
Request(op, method, endpoint, c, target, cu, out) ==
    [op |-> op, method |-> method, endpoint |-> endpoint,
     authorization |-> c[1], x_api_key |-> c[2],
     target |-> target, cu |-> cu, out |-> out]

PostRegister(user, api_key) ==
    Request("register_user", "POST", <<"register">>, NoCredentials,
            Target(0, user.username), Anonymous, register_user(user, api_key, DB))

PostToken(username, password) ==
    Request("login_for_access_token", "POST", <<"token">>, NoCredentials,
            Target(0, username), Anonymous,
            login_for_access_token(username, password, DB, now))

GetNotesRequest(c) ==
    LET cu == CurrentUser(c[1], c[2])
    IN  Request("get_notes", "GET", <<"notes">>, c, NoTarget, cu,
                Protected(cu, DB, get_notes(cu.user, DB)))

DeleteUserRequest(c, user_name) ==
    LET cu == CurrentUser(c[1], c[2])
    IN  Request("delete_user", "DELETE", <<"users", user_name>>, c,
                Target(0, user_name), cu,
                Protected(cu, DB, delete_user(user_name, cu.user, DB)))

\* The request goes through the middleware and is answered.  What the route
\* committed stays committed whatever the middleware does afterwards; a token
\* is in a client's hands only if the response that carries it arrives.
Through(req, commit_ok) ==
    LET res == log_requests(req, req.out.resp, logs, now, commit_ok)
        issued == IF req.op = "login_for_access_token"
                  THEN { Grant(b.access_token, now, "login", 0) : b \in res.resp.body }
                  ELSE {}
    IN  /\ NextId(logs) <= MaxLogId
        /\ \A u \in req.out.users : u.id <= MaxUserId
        /\ Cardinality(tokens \cup issued) <= MaxTokens
        /\ Respond(req.op, <<req.authorization, req.x_api_key>>, req.target, req.cu,
                   [req.out EXCEPT !.resp = res.resp])
        /\ logs' = res.logs
        /\ tokens' = tokens \cup issued
        /\ UNCHANGED <<now, pending>>

\* alice and bob, and a second bob asking for the email of alice.
LogRegistrations ==
    { UserCreate("alice", "fn", "a@x", "pw1", ADMIN),
      UserCreate("bob", "fn", "b@x", "pw1", USER),
      UserCreate("bob", "fn", "a@x", "pw1", USER) }

RegisterRequests == { PostRegister(user, KeyOf(user.username)) : user \in LogRegistrations }
TokenRequests == { PostToken(u, p) : u \in Usernames, p \in Passwords }
NotesRequests == { GetNotesRequest(c) : c \in PlainCredentials }
DeleteRequests == { DeleteUserRequest(c, u) : c \in PlainCredentials, u \in Usernames }

NextLog ==
    \/ \E req \in RegisterRequests, commit_ok \in BOOLEAN : Through(req, commit_ok)
    \/ \E req \in TokenRequests, commit_ok \in BOOLEAN : Through(req, commit_ok)
    \/ \E req \in NotesRequests, commit_ok \in BOOLEAN : Through(req, commit_ok)
    \/ \E req \in DeleteRequests, commit_ok \in BOOLEAN : Through(req, commit_ok)

SpecLog == Init /\ [][NextLog]_vars

(***************************************************************************)
(* Steps and credentials the claims speak of.                              *)
(***************************************************************************)
ProtectedOps ==
    {"create_note", "get_notes", "delete_note", "update_note", "get_logs",
     "deactivate_user", "reset_password", "update_user_role", "get_all_users",
     "delete_user"}

\* The step answers a request to op: every step but a clock tick and the two
\* halves of an interleaved registration sets last to the request it answers.
Answered(op) == now' = now /\ pending' = pending /\ last'.op = op

AnsweredProtected == now' = now /\ pending' = pending /\ last'.op \in ProtectedOps

\* The record of the identity a request resolved, in the store the request found.
IdentityOf(name) == CHOOSE u \in users : u.username = name

\* A bearer token is present: an Authorization header "Bearer <non-empty>".
BearerPresent(a) == a.scheme = "bearer" /\ a.param.kind # "empty"

\* The token is validly signed for subject name and not expired at t.
ValidTokenFor(token, name, t) ==
    token.kind = "jwt" /\ token.sub = name /\ ~(token.hasexp /\ token.exp * TicksPerSecond <= t)

\* Every credential of user record u is rejected in the current state.
CredentialsRejected(u) ==
    /\ \A a \in Authorizations, k \in XApiKeys :
          (BearerPresent(a) /\ a.param.sub = u.username) =>
              LET cu == CurrentUser(a, k) IN ~cu.ok /\ cu.status = 401
    /\ \A a \in Authorizations :
          ~BearerPresent(a) => ~CurrentUser(a, u.api_key).ok

\* C1: once deactivate has succeeded on a user, the record stays inactive for
\* as long as it exists, and in every such state a bearer token for the user
\* is answered 401 and the user's API key is rejected.
C1_DeactivatedCredentialsRejected ==
    /\ [][/\ (Answered("deactivate_user") /\ last'.resp.status = 200) =>
                  \A b \in last'.resp.body :
                      \E v \in users' : v.username = b.username /\ ~v.is_active
           /\ \A u \in users : ~u.is_active =>
                  \A w \in users' : (w.id = u.id /\ w.username = u.username) => ~w.is_active
          ]_vars
    /\ [](\A v \in users : ~v.is_active => CredentialsRejected(v))

\* C1 witness: a validly signed, unexpired token of a deactivated user was
\* just answered 401.
C1_Witness ==
    /\ last.op = "get_notes"
    /\ last.resp.status = 401
    /\ \E u \in users :
          /\ ~u.is_active
          /\ ValidTokenFor(last.authorization.param, u.username, now)
          /\ BearerPresent(last.authorization)

\* The lifetime a token was issued with, as claimed: 30 minutes from login,
\* the expires_delta passed otherwise, 15 minutes when none was.
ClaimedTtl(g) ==
    IF g.by = "login" THEN 30 * 60 * TicksPerSecond
    ELSE IF g.delta = 0 THEN 15 * 60 * TicksPerSecond
    ELSE g.delta

\* The instant the token of g stops validating: its issue time plus its
\* lifetime, cut down to a whole second.
ExpiryInstant(g) == ((g.at + ClaimedTtl(g)) \div TicksPerSecond) * TicksPerSecond

SubjectActive(g) == \E u \in users : u.username = g.token.sub /\ u.is_active

\* C2 as claimed: a token of a present, active subject resolves to the subject
\* at every time before issue time + ttl, and fails as expired from then on.
C2_ExpiresExactlyAtTtl ==
    \A g \in tokens : SubjectActive(g) =>
        LET cu == CurrentUser(Bearer(g.token), None)
        IN  IF now < g.at + ClaimedTtl(g)
            THEN cu.ok /\ cu.user.username = g.token.sub
            ELSE ~cu.ok /\ cu.status = 401 /\ cu.detail = "Token has expired"

\* C2 amended: the token resolves to its subject at every time before its
\* expiry instant e and fails as expired at every time from e on, where e is
\* issue time + ttl cut down to a whole second (ttl 30 minutes from login, 15
\* minutes by default): never valid at or after issue time + ttl, and expired
\* less than a second before it at the earliest.
C2_ExpiresAtWholeSecond ==
    \A g \in tokens : SubjectActive(g) =>
        LET cu == CurrentUser(Bearer(g.token), None)
            e == ExpiryInstant(g)
        IN  /\ e <= g.at + ClaimedTtl(g)
            /\ g.at + ClaimedTtl(g) < e + TicksPerSecond
            /\ IF now < e
               THEN cu.ok /\ cu.user.username = g.token.sub
               ELSE ~cu.ok /\ cu.status = 401 /\ cu.detail = "Token has expired"

\* C2 witness: a login token was answered "Token has expired" at a time before
\* its issue time plus 30 minutes.
C2_Witness ==
    /\ last.op = "get_notes"
    /\ last.resp = HTTPException(401, "Token has expired")
    /\ \E g \in tokens : /\ g.by = "login"
                         /\ Bearer(g.token) = last.authorization
                         /\ SubjectActive(g)
                         /\ now < g.at + ClaimedTtl(g)

\* C3: a request with both a bearer token and an API key is authenticated as
\* the bearer token alone would be: a valid token resolves to its subject,
\* whoever owns the key, and a token that fails is answered 401.
C3_BearerTakesPrecedence ==
    [][(/\ AnsweredProtected
        /\ BearerPresent(last'.authorization)
        /\ last'.x_api_key # None) =>
            LET token == last'.authorization.param
                alone == CurrentUser(last'.authorization, None)
            IN  /\ last'.current_user = alone.user.username
                /\ alone.ok => /\ last'.current_user = token.sub
                               /\ last'.resp.status \notin {401}
                /\ ~alone.ok => /\ last'.resp = HTTPException(alone.status, alone.detail)
                                /\ last'.resp.status = 401
      ]_vars

\* C3 witness: a valid token of one user with the API key of another active
\* user resolved to the token's subject.
C3_Witness ==
    /\ last.op \in ProtectedOps
    /\ BearerPresent(last.authorization)
    /\ last.current_user = last.authorization.param.sub
    /\ \E v \in users : /\ v.api_key = last.x_api_key
                        /\ v.is_active
                        /\ v.username # last.current_user

\* C3 witness: an expired token with the API key of an active user was
\* answered 401.
C3_WitnessExpired ==
    /\ last.op \in ProtectedOps
    /\ last.resp = HTTPException(401, "Token has expired")
    /\ \E v \in users : v.api_key = last.x_api_key /\ v.is_active

\* C4 as claimed: a protected request without an Authorization header and with
\* the API key of an existing active user resolves to that user.
C4_ApiKeyWithoutBearer ==
    [][(/\ AnsweredProtected
        /\ last'.authorization = NoAuthorization) =>
            \A u \in users :
                (u.is_active /\ u.api_key = last'.x_api_key) =>
                    /\ last'.current_user = u.username
                    /\ last'.resp.status = 200
      ]_vars

\* C5 as claimed: without a bearer token, an API key of no user or of an
\* inactive user is answered 403; a bearer token that is malformed, has no
\* subject, or whose subject is absent or inactive is answered 401; a request
\* with neither credential is answered 401.
C5_FailureKinds ==
    [][AnsweredProtected =>
          LET a == last'.authorization
              k == last'.x_api_key
              keyOwners == {u \in users : u.api_key = k /\ u.is_active}
              subjects == {u \in users : u.username = a.param.sub /\ u.is_active}
          IN  /\ (~BearerPresent(a) /\ k # None /\ keyOwners = {}) =>
                      last'.resp.status = 403
              /\ (BearerPresent(a) /\ (a.param.kind = "garbage" \/ subjects = {})) =>
                      last'.resp.status = 401
              /\ (~BearerPresent(a) /\ k = None) => last'.resp.status = 401
      ]_vars

\* C6: GET /notes answers an identity with exactly the notes that are public,
\* its own, or any at all when its live role is admin.
C6_VisibleNotesExactly ==
    (last.op = "get_notes" /\ last.current_user # None) =>
        LET I == IdentityOf(last.current_user)
        IN  /\ last.resp.status = 200
            /\ last.resp.body =
                  { Note(n) : n \in { m \in notes : \/ ~m.is_private
                                                    \/ m.owner = I.username
                                                    \/ I.role = ADMIN } }
            /\ \A b \in last.resp.body :
                  (b.is_private /\ b.owner # I.username) => I.role = ADMIN

\* C6 witness: a non-admin was answered without another owner's private note,
\* and with a public note of that owner.
C6_Witness ==
    /\ last.op = "get_notes"
    /\ last.current_user # None
    /\ IdentityOf(last.current_user).role = USER
    /\ \E n \in notes : /\ n.is_private
                        /\ n.owner # last.current_user
                        /\ Note(n) \notin last.resp.body
    /\ \E n \in notes : /\ ~n.is_private
                        /\ n.owner # last.current_user
                        /\ Note(n) \in last.resp.body

\* C7: PUT and DELETE on a note answer 404 when no note has the id, whoever
\* asks; otherwise they are performed for the owner and for an admin, and
\* answered 403, with the notes untouched, for anyone else.
C7_NoteExistenceBeforeOwnership ==
    [][((Answered("delete_note") \/ Answered("update_note")) /\ last'.current_user # None) =>
          LET I == IdentityOf(last'.current_user)
              found == {n \in notes : n.id = last'.target.id}
          IN  /\ found = {} => (last'.resp.status = 404 /\ notes' = notes)
              /\ \A n \in found :
                    IF n.owner = I.username \/ I.role = ADMIN
                    THEN /\ last'.resp.status = 200
                         /\ n \notin notes' \/ last'.op = "update_note"
                         /\ \A m \in notes' : m.id = n.id => last'.op = "update_note"
                         /\ last'.op = "update_note" =>
                               \E m \in notes' : m.id = n.id /\ last'.resp.body = {Note(m)}
                    ELSE last'.resp.status = 403 /\ notes' = notes
      ]_vars

\* C7 witness: a non-owner who is no admin was answered 404 for an id no note
\* has, while notes of another owner exist.
C7_Witness404 ==
    /\ last.op \in {"delete_note", "update_note"}
    /\ last.resp.status = 404
    /\ last.current_user # None
    /\ IdentityOf(last.current_user).role = USER
    /\ \E n \in notes : n.owner # last.current_user

\* C7 witness: a non-owner who is no admin was answered 403 for a note that
\* exists.
C7_Witness403 ==
    /\ last.op \in {"delete_note", "update_note"}
    /\ last.resp.status = 403
    /\ last.current_user # None
    /\ \E n \in notes : n.id = last.target.id /\ n.owner # last.current_user

AdminOps ==
    {"get_logs", "get_all_users", "deactivate_user", "reset_password",
     "update_user_role", "delete_user"}

ByIdOps == {"deactivate_user", "reset_password", "update_user_role"}

\* The user a request to op is aimed at exists (the listings aim at none).
TargetExists(op, target) ==
    \/ op \in {"get_logs", "get_all_users"}
    \/ op \in ByIdOps /\ \E u \in users : u.id = target.id
    \/ op = "delete_user" /\ \E u \in users : u.username = target.name

\* C8: the admin-only routes are performed for an admin and answered 403 for
\* anyone else, whether or not the target user exists; 404 is answered only
\* to an admin, for a target that does not exist.
C8_RoleBeforeExistence ==
    [][(now' = now /\ pending' = pending /\ last'.op \in AdminOps
            /\ last'.current_user # None) =>
          LET I == IdentityOf(last'.current_user)
              op == last'.op
              target == last'.target
          IN  IF I.role # ADMIN
              THEN last'.resp.status = 403 /\ users' = users /\ notes' = notes
              ELSE /\ last'.resp.status = IF TargetExists(op, target) THEN 200 ELSE 404
                   /\ ~TargetExists(op, target) => users' = users
                   /\ (TargetExists(op, target) /\ op \in ByIdOps) =>
                         \E v \in users' : v.id = target.id /\ last'.resp.body = {User(v)}
                   /\ (TargetExists(op, target) /\ op = "deactivate_user") =>
                         \A v \in users' : v.id = target.id => ~v.is_active
                   /\ (TargetExists(op, target) /\ op = "delete_user") =>
                         \A v \in users' : v.username # target.name
                   /\ op = "get_all_users" => last'.resp.body = { User(u) : u \in users }
      ]_vars

\* C8 witness: a non-admin was answered 403 by a user-management route for a
\* user that does not exist.
C8_Witness ==
    /\ last.op \in AdminOps
    /\ ~TargetExists(last.op, last.target)
    /\ last.current_user # None
    /\ IdentityOf(last.current_user).role = USER
    /\ last.resp.status = 403

\* C9: a registration whose username is in the store is answered 400 "User
\* already exists"; no registration, however interleaved, changes or removes
\* a record that is in the store, and none adds a second record of a
\* username.
C9_DuplicateUsernameRejected ==
    [][(now' = now /\ last'.op = "register_user") =>
          /\ \A u \in users : u \in users'
          /\ notes' = notes
          /\ (\E u \in users : u.username = last'.target.name) =>
                /\ users' = users
                /\ Answered("register_user") =>
                      last'.resp = HTTPException(400, "User already exists")
      ]_vars

\* C9 witness: a registration with the username of a deactivated user, and
\* other field values than that user's, was answered 400.
C9_Witness ==
    /\ last.op = "register_user"
    /\ last.resp = HTTPException(400, "User already exists")
    /\ \E u \in users : /\ u.username = last.target.name
                        /\ ~u.is_active

\* C10 as claimed: no response carries a password hash.
C10_NoPasswordHashInResponse ==
    \A b \in last.resp.body : "hashed_password" \notin DOMAIN b

\* The response of every failed login.
InvalidCredentials == HTTPException(401, "Incorrect username or password")

\* C11: a login that fails because the username is unknown and one that fails
\* because the password is wrong are answered alike, whatever the store: each
\* is the same 401 with the same detail and an empty body, and the store is
\* left as it was.
C11_LoginFailureUniform ==
    /\ [][\A u \in Usernames, p \in Passwords :
            Login(u, p) =>
                LET known == \E v \in users : v.username = u
                    wrong == \E v \in users : /\ v.username = u
                                               /\ ~verify_password(p, v.hashed_password)
                IN  (~known \/ wrong) => /\ last'.resp = InvalidCredentials
                                          /\ users' = users
                                          /\ tokens' = tokens
         ]_vars
    /\ [](\A u1 \in Usernames, u2 \in Usernames, p1 \in Passwords, p2 \in Passwords :
            ((\A v \in users : v.username # u1)
                /\ (\E v \in users : /\ v.username = u2
                                       /\ ~verify_password(p2, v.hashed_password))) =>
                login_for_access_token(u1, p1, DB, now).resp
                    = login_for_access_token(u2, p2, DB, now).resp)

\* C11 witness: a login with the wrong password for an existing user was
\* answered 401 while another username is unknown.
C11_Witness ==
    /\ last.op = "login_for_access_token"
    /\ last.resp = InvalidCredentials
    /\ \E v \in users : v.username = last.target.name
    /\ \E u \in Usernames : \A v \in users : v.username # u

\* The requests of SpecLog in the current state.
LogRequests == RegisterRequests \cup TokenRequests \cup NotesRequests \cup DeleteRequests

\* C12 as claimed: every request that is answered, the log write succeeding,
\* appends exactly one log entry, with the request's endpoint and method and
\* the status of the response the client receives.
C12_EveryRequestLogged ==
    [][\A req \in LogRequests :
          Through(req, TRUE) =>
              \E e \in logs' : /\ e \notin logs
                               /\ logs' = logs \cup {e}
                               /\ e.endpoint = req.endpoint
                               /\ e.method = req.method
                               /\ e.status_code = last'.resp.status
      ]_vars

\* C13 as claimed: the username of the entry a request appends is that of the
\* identity the request resolved to, and null when it resolved to none.
C13_LoggedUsernameIsIdentity ==
    [][\A req \in LogRequests :
          Through(req, TRUE) =>
              \A e \in logs' : e \notin logs => e.username = req.cu.user.username
      ]_vars

\* C14 as claimed: when the log write raises, the client still receives the
\* response of the main operation, and the users and notes are those the main
\* operation committed.
C14_LogFailureKeepsOutcome ==
    [][\A req \in LogRequests :
          Through(req, FALSE) =>
              /\ last'.resp = req.out.resp
              /\ users' = req.out.users
              /\ notes' = req.out.notes
      ]_vars

\* C15: in every state no two user records share an id, a username or a
\* non-null api_key, however registrations, deletions and deactivations are
\* interleaved; a registration that passed its existence check and finds its
\* username taken when it commits stores nothing and is answered 500.
C15_UsernameAndApiKeyUnique ==
    /\ [][\A user \in pending :
            (user \notin pending' /\ \E u \in users : u.username = user.username) =>
                users' = users /\ last'.resp = InternalServerError
         ]_vars
    /\ [](\A u \in users, v \in users :
            u # v => /\ u.id # v.id
                     /\ u.username # v.username
                     /\ u.api_key = None \/ u.api_key # v.api_key)

\* C15 witness: two registrations of one username had both passed the
\* existence check; one is stored and the other was refused at its commit.
C15_Witness ==
    /\ last.op = "register_user"
    /\ last.resp = InternalServerError
    /\ pending = {}
    /\ Cardinality({u \in users : u.username = last.target.name}) = 1

\* C16: a note created by an identity has that identity's username as owner,
\* and no step changes the owner of a note; a successful PUT /notes/{id}
\* assigns the supplied ones of title, content and is_private and leaves the
\* note's id, owner and unsupplied fields, every other note and every user
\* as they were.
C16_OwnerFixedUpdateFramed ==
    [][/\ \A n \in notes, m \in notes' : m.id = n.id => m.owner = n.owner
       /\ (Answered("create_note") /\ last'.resp.status = 200) =>
             \E m \in notes' : /\ m \notin notes
                               /\ notes' = notes \cup {m}
                               /\ m.owner = last'.current_user
                               /\ m.owner = CurrentUser(last'.authorization,
                                                        last'.x_api_key).user.username
                               /\ users' = users
       /\ (Answered("update_note") /\ last'.resp.status = 200) =>
             LET c == <<last'.authorization, last'.x_api_key>>
                 i == last'.target.id
             IN  /\ \E nu \in NotesUpdates : UpdateNote(c, i, nu)
                 /\ \A nu \in NotesUpdates :
                       UpdateNote(c, i, nu) =>
                           \E n \in notes, m \in notes' :
                               /\ n.id = i /\ m.id = i
                               /\ m.owner = n.owner
                               /\ notes' \ {m} = notes \ {n}
                               /\ users' = users
                               /\ m.title = IF "title" \in nu.set
                                            THEN nu.title ELSE n.title
                               /\ m.content = IF "content" \in nu.set
                                              THEN nu.content ELSE n.content
                               /\ m.is_private = IF "is_private" \in nu.set
                                                 THEN nu.is_private ELSE n.is_private
      ]_vars

\* C16 witness: an admin who does not own the note updated its title; the
\* note is still its creator's.
C16_Witness ==
    /\ last.op = "update_note"
    /\ last.resp.status = 200
    /\ last.current_user # None
    /\ \E n \in notes : /\ n.id = last.target.id
                        /\ n.owner # last.current_user
                        /\ n.title = "t2"
                        /\ last.resp.body = {Note(n)}

\* The statuses of the error responses.
ErrorStatuses == {400, 401, 403, 404}

\* C17: a request answered 400, 401, 403 or 404 leaves the user records and
\* the note records exactly as they were.
C17_ErrorLeavesStore ==
    [][(/\ now' = now
        /\ pending' = pending
        /\ last'.op # "none"
        /\ last'.resp.status \in ErrorStatuses) =>
            /\ users' = users
            /\ notes' = notes
            /\ last'.resp.body = {}
      ]_vars

\* C17 witness: a role update asked by a non-admin for an existing user,
\* other than the caller, was answered 403 while notes exist.
C17_Witness ==
    /\ last.op = "update_user_role"
    /\ last.resp.status = 403
    /\ last.current_user # None
    /\ \E u \in users : u.id = last.target.id /\ u.username # last.current_user
    /\ notes # {}

\* C18 as claimed: a token resolves only to the record it was issued for.
\* When DELETE /users/{username} has removed the subject of a token, the token
\* resolves to nothing; and when a username is registered, the tokens issued
\* earlier for that username (to a record since removed) do not resolve to
\* the new record.
C18_TokenBoundToRecord ==
    [][/\ (Answered("delete_user") /\ last'.resp.status = 200) =>
             \A g \in tokens :
                 g.token.sub = last'.target.name =>
                     (~CurrentUser(Bearer(g.token), None).ok)'
       /\ (Answered("register_user") /\ last'.resp.status = 200) =>
             \A g \in tokens :
                 g.token.sub = last'.target.name =>
                     (~CurrentUser(Bearer(g.token), None).ok)'
      ]_vars

\* The role a username registers with in SpecRole.
RoleAtRegistration(username) ==
    CHOOSE r \in Role : \E user \in NotesRegistrations :
        user.username = username /\ user.role = r

\* C19: a request is authorized by the role its identity's record holds when
\* the request is made, whatever the role was when the token or API key was
\* handed out: an admin-only route answers 403 exactly when that role is not
\* admin, GET /notes shows the notes that role may see, and a successful
\* update_role leaves the new role in the record.
C19_LiveRoleAuthorizes ==
    [][(AnsweredProtected /\ last'.current_user # None) =>
          LET I == IdentityOf(last'.current_user)
          IN  /\ last'.op \in AdminOps =>
                    /\ (last'.resp.status = 403) <=> (I.role # ADMIN)
                    /\ I.role = ADMIN => last'.resp.status \in {200, 404}
              /\ last'.op = "get_notes" =>
                    last'.resp.body =
                        { Note(n) : n \in { m \in notes :
                              \/ ~m.is_private
                              \/ m.owner = I.username
                              \/ I.role = ADMIN } }
              /\ (last'.op = "update_user_role" /\ last'.resp.status = 200) =>
                    \E v \in users' : /\ v.id = last'.target.id
                                      /\ last'.resp.body = {User(v)}
                                      /\ \A w \in users' : w.id = v.id => w = v
      ]_vars

\* C19 witness: an admin demoted to user was refused an admin-only route with
\* the token issued while the role was admin.
C19_Witness ==
    /\ last.op = "get_logs"
    /\ last.resp.status = 403
    /\ BearerPresent(last.authorization)
    /\ last.current_user = last.authorization.param.sub
    /\ RoleAtRegistration(last.current_user) = ADMIN
    /\ IdentityOf(last.current_user).role = USER

\* C19 witness: a user promoted to admin was shown another owner's private
\* note with the API key handed out at registration.
C19_WitnessPromoted ==
    /\ last.op = "get_notes"
    /\ last.x_api_key # None
    /\ last.current_user # None
    /\ RoleAtRegistration(last.current_user) = USER
    /\ IdentityOf(last.current_user).role = ADMIN
    /\ \E n \in notes : /\ n.is_private
                        /\ n.owner # last.current_user
                        /\ Note(n) \in last.resp.body

\* C20: a login succeeds exactly when a record has the username and the
\* password verifies against its hash, active or not; the response carries
\* the record's API key and a token for the username issued with a lifetime
\* of 30 minutes; and while a record is inactive neither its tokens nor its
\* API key resolve to an identity.
C20_LoginIgnoresActive ==
    /\ [][Answered("login_for_access_token") =>
            \A p \in Passwords :
                Login(last'.target.name, p) =>
                    LET u == last'.target.name
                        match == { v \in users :
                                      /\ v.username = u
                                      /\ verify_password(p, v.hashed_password) }
                        ttl == timedelta(ACCESS_TOKEN_EXPIRE_MINUTES)
                    IN  /\ (last'.resp.status = 200) <=> (match # {})
                        /\ match = {} => last'.resp.status = 401
                        /\ \A v \in match :
                              \E b \in last'.resp.body :
                                  /\ last'.resp.body = {b}
                                  /\ b.api_key = v.api_key
                                  /\ b.access_token.kind = "jwt"
                                  /\ b.access_token.sub = u
                                  /\ b.access_token.exp * TicksPerSecond <= now + ttl
                                  /\ now + ttl < (b.access_token.exp + 1) * TicksPerSecond
                                  /\ ~v.is_active =>
                                        /\ (~CurrentUser(Bearer(b.access_token), None).ok)'
                                        /\ (~CurrentUser(Bearer(EmptyToken), b.api_key).ok)'
                                        /\ (~CurrentUser(NoAuthorization, b.api_key).ok)'
         ]_vars
    /\ [](\A v \in users : ~v.is_active =>
            /\ \A g \in tokens : g.token.sub = v.username =>
                    \A k \in XApiKeys : ~CurrentUser(Bearer(g.token), k).ok
            /\ ~CurrentUser(Bearer(EmptyToken), v.api_key).ok
            /\ ~CurrentUser(NoAuthorization, v.api_key).ok)

\* C20 witness: a deactivated user logged in with the correct password and
\* was given a token and the API key.
C20_Witness ==
    /\ last.op = "login_for_access_token"
    /\ last.resp.status = 200
    /\ \E v \in users : /\ v.username = last.target.name
                        /\ ~v.is_active
                        /\ \E b \in last.resp.body :
                              /\ b.api_key = v.api_key
                              /\ b.access_token.sub = v.username

====
